---------------------------- MODULE Spec2Model ----------------------------
(***************************************************************************)
(* Model of mcp-server/src/crawl4ai_mcp/server.py: the lazily created      *)
(* shared crawler, the crawl_documentation tool, the breadth-first         *)
(* extend_knowledge_graph tool and the should_crawl_link filter.           *)
(*                                                                         *)
(* Python strings are sequences of one-character strings, Python dicts    *)
(* are functions with a domain of keys (records), and a Python value whose *)
(* type matters (None, str or dict) carries a tag.                         *)
(***************************************************************************)
EXTENDS Integers, Sequences, FiniteSets, TLC

VARIABLES
    world,          \* what the web answers: outcome of a fetch per URL
    crawler,        \* the module global `crawler`: 0 is None, else the instance
    created,        \* number of AsyncWebCrawler instances constructed so far
    running,        \* the coroutine the event loop is running, 0 when all are suspended
    pc,             \* position of each extend_knowledge_graph invocation
    local,          \* the locals of each extend_knowledge_graph invocation
    fetched,        \* per invocation, the URLs handed to crawl_documentation, in order
    tool,           \* the standalone crawl_documentation tool call
    filter,         \* a should_crawl_link call: its arguments and its result
    log,            \* per invocation, the queue entries appended and popped, in order
    resource        \* what the last read of the knowledge_graph resource returned

vars == <<world, crawler, created, running, pc, local, fetched, tool, filter,
          log, resource>>

---------------------------------------------------------------------------
(* Bounds of the model *)

MaxDepth == 2           \* largest depth argument tried
ExtraPages == 2         \* pages of the site beyond the page cap

(* Program constant: the page cap of the crawl loop *)
MaxVisited == 50

---------------------------------------------------------------------------
(* Python values *)

None == [tag |-> "None"]
EmptyDict == [k \in {} |-> None]
PyDict(items) == [tag |-> "dict", items |-> items]
PyStr(s) == [tag |-> "str", text |-> s]
PyList(items) == [tag |-> "list", items |-> items]

\* dict.get(key, default) on a dict given as a function
Get(d, key, default) == IF key \in DOMAIN d THEN d[key] ELSE default

\* str.startswith(prefix)
StartsWith(s, prefix) ==
    /\ Len(prefix) <= Len(s)
    /\ SubSeq(s, 1, Len(prefix)) = prefix

\* `pattern in link` on strings: scan the start positions left to right
RECURSIVE ContainsFrom(_, _, _)
ContainsFrom(s, sub, i) ==
    IF i + Len(sub) - 1 > Len(s) THEN FALSE
    ELSE IF SubSeq(s, i, i + Len(sub) - 1) = sub THEN TRUE
    ELSE ContainsFrom(s, sub, i + 1)

Contains(s, sub) == ContainsFrom(s, sub, 1)

\* any(pattern in link for pattern in patterns): in order, stops at the first hit
RECURSIVE AnyPatternIn(_, _)
AnyPatternIn(link, pats) ==
    IF pats = <<>> THEN FALSE
    ELSE IF Contains(link, Head(pats)) THEN TRUE
    ELSE AnyPatternIn(link, Tail(pats))

\* truth value of the `patterns` argument: None and [] are falsy
Truthy(patterns) == patterns.tag = "list" /\ patterns.items # <<>>

default_patterns ==
    << <<"/", "a", "p", "i", "/">>,
       <<"/", "g", "u", "i", "d", "e", "/">>,
       <<"/", "d", "o", "c", "s", "/">>,
       <<"/", "r", "e", "f", "e", "r", "e", "n", "c", "e", "/">>,
       <<"/", "t", "u", "t", "o", "r", "i", "a", "l", "/">> >>

\* variant: the test is `patterns is not None`, so [] never falls back
should_crawl_link_no_default(link, base_url, patterns) ==
    IF ~StartsWith(link, base_url) THEN FALSE
    ELSE IF patterns.tag = "list" THEN AnyPatternIn(link, patterns.items)
    ELSE AnyPatternIn(link, default_patterns)

should_crawl_link(link, base_url, patterns) ==
    IF ~StartsWith(link, base_url) THEN FALSE
    ELSE IF Truthy(patterns) THEN AnyPatternIn(link, patterns.items)
    ELSE AnyPatternIn(link, default_patterns)


---------------------------------------------------------------------------
(* URLs of the modelled web *)

RootURL == <<"x", ".", "i", "o">>
ShortRoot == <<"x", ".", "i">>
ApiPath == <<"/", "a", "p", "i", "/">>
BlogPattern == <<"/", "b", "l", "o", "g", "/">>
Digits == <<"0", "1", "2", "3", "4", "5", "6", "7", "8", "9">>

NumPages == MaxVisited + ExtraPages

\* the n-th API page of the site, x.io/api/NN
Page(n) == RootURL \o ApiPath \o <<Digits[(n \div 10) + 1], Digits[(n % 10) + 1]>>

BlogURL == RootURL \o BlogPattern \o <<"a">>
OffSiteURL == <<"y", ".", "i", "o">> \o ApiPath \o <<"a">>
UpperURL == RootURL \o <<"/", "A", "P", "I", "/", "a">>

\* the n with Page(n) = url, 0 when url is not an API page
PageIndex(url) ==
    IF \E n \in 1..NumPages : Page(n) = url
    THEN CHOOSE n \in 1..NumPages : Page(n) = url
    ELSE 0
IsPage(url) == \E n \in 1..NumPages : Page(n) = url

---------------------------------------------------------------------------
(* The web: what crawler.arun answers for a URL.  A kind fixes whether the *)
(* call raises and, when it returns, the fields of the result object.      *)

\* raise_config, raise_arun: an exception of class Exception is raised;
\* interrupt_config, cancel_arun: one that is a BaseException only
\* (KeyboardInterrupt, SystemExit, asyncio.CancelledError);
\* metadata_none: result.metadata is None, so metadata.get raises
\* AttributeError; interrupt_assemble: metadata.get raises a BaseException
RootKinds == {"ok", "ok_bare", "unsuccessful", "content_str", "content_none",
              "raise_config", "raise_arun", "metadata_none",
              "interrupt_config", "cancel_arun", "interrupt_assemble"}
RestKinds == {"ok", "unsuccessful"}
Topologies == {"none", "star", "web"}

Worlds == [root : RootKinds, rest : RestKinds, topo : Topologies]

FullContent ==
    PyDict([main_concepts |-> <<"concept">>, api_methods |-> <<"method">>])

\* hyperlinks on the page at url
LinksOf(w, url) ==
    IF w.topo = "none" THEN <<>>
    ELSE IF w.topo = "star" THEN
        IF url = RootURL
        THEN [n \in 1..NumPages |-> Page(n)] \o <<OffSiteURL, BlogURL, UpperURL>>
        ELSE IF url = ShortRoot THEN <<Page(1), BlogURL>>
        ELSE <<>>
    ELSE \* "web": duplicates, back links and a chain
        IF url = RootURL
        THEN <<Page(1), Page(1), Page(2), RootURL, BlogURL, OffSiteURL>>
        ELSE IF url = ShortRoot THEN <<Page(1), RootURL>>
        ELSE IF url = BlogURL THEN <<Page(1), BlogURL>>
        ELSE IF IsPage(url) /\ PageIndex(url) < NumPages
        THEN <<Page(PageIndex(url) + 1), RootURL, url>>
        ELSE <<>>

KindOf(w, url) == IF url = RootURL THEN w.root ELSE w.rest

\* the outcome of `await crawler.arun(url=url, **config)`
RawPage(w, url) ==
    LET kind == KindOf(w, url) IN
    [ raises |-> IF kind \in {"raise_config", "interrupt_config"} THEN "config"
                 ELSE IF kind \in {"raise_arun", "cancel_arun"} THEN "arun"
                 ELSE "none",
      exception_class |->
          IF kind \in {"interrupt_config", "cancel_arun", "interrupt_assemble"}
          THEN "BaseException"
          ELSE "Exception",
      success |-> kind \notin {"unsuccessful"},
      markdown |-> PyStr("text"),
      extracted_content |->
          IF kind = "ok" THEN FullContent
          ELSE IF kind = "ok_bare" THEN PyDict(EmptyDict)
          ELSE IF kind = "content_str" THEN PyStr("json")
          ELSE IF kind = "metadata_none" THEN FullContent
          ELSE None,
      links |-> LinksOf(w, url),
      metadata |->
          IF kind = "metadata_none" THEN None
          ELSE IF kind = "interrupt_assemble" THEN [tag |-> "raising"]
          ELSE IF kind = "ok_bare" THEN PyDict(EmptyDict)
          ELSE PyDict([title |-> PyStr("Doc")]) ]

---------------------------------------------------------------------------
(* init_crawler: create the shared crawler on first use *)

\* what the AsyncWebCrawler constructor does: it returns, raises an
\* exception of class Exception, or raises one that is a BaseException only
\* (KeyboardInterrupt, SystemExit)
CtorOutcomes == {"ok", "Exception", "BaseException"}

\* variant: init_crawler constructing a crawler without assigning the global
init_crawler_no_store(c, n, ctor) ==
    IF c = 0
    THEN IF ctor = "ok"
         THEN [crawler |-> 0, created |-> n + 1, raised |-> "none"]
         ELSE [crawler |-> 0, created |-> n, raised |-> ctor]
    ELSE [crawler |-> c, created |-> n, raised |-> "none"]

\* variant: init_crawler without the test of line 23, constructing a crawler
\* on every call
init_crawler_always_creates(c, n, ctor) ==
    IF ctor = "ok"
    THEN [crawler |-> n + 1, created |-> n + 1, raised |-> "none"]
    ELSE [crawler |-> c, created |-> n, raised |-> ctor]

\* raised: "none" when the call returns the crawler, else the class of the
\* exception the constructor raised, which leaves init_crawler
init_crawler(c, n, ctor) ==
    IF c = 0
    THEN IF ctor = "ok"
         THEN [crawler |-> n + 1, created |-> n + 1, raised |-> "none"]
         ELSE [crawler |-> 0, created |-> n, raised |-> ctor]
    ELSE [crawler |-> c, created |-> n, raised |-> "none"]

---------------------------------------------------------------------------
(* crawl_documentation *)

ExtractTypes == {"markdown", "structured", "links", "other"}

\* extraction_config.get(extract_type, extraction_config["markdown"])
extraction_config(extract_type) ==
    IF extract_type \in {"markdown", "structured", "links"}
    THEN extract_type
    ELSE "markdown"

Return(value) == [kind |-> "return", value |-> value]
Raise(what) == [kind |-> "raise", value |-> what]

\* the first statement of the try block that raises: "none" when none does
RaisedAt(init_raised, raw) ==
    IF init_raised # "none" THEN "init"
    ELSE IF raw.raises # "none" THEN raw.raises
    ELSE IF raw.metadata.tag # "dict" THEN "assemble"
    ELSE "none"

\* line 82: `except Exception` takes what the try block raised when it is of
\* class Exception; the class is the constructor's for stage init and the
\* page's for the stages config, arun and assemble
CaughtByExcept(stage, init_raised, raw) ==
    IF stage = "init" THEN init_raised = "Exception"
    ELSE raw.exception_class = "Exception"

FailureResult(url, stage) ==
    [url |-> url, error |-> PyStr(stage), success |-> FALSE]

SuccessResult(url, extract_type, raw) ==
    [ url |-> url,
      title |-> Get(raw.metadata.items, "title", PyStr("")),
      content |-> IF extract_type = "markdown" THEN raw.markdown
                  ELSE raw.extracted_content,
      links |-> IF extract_type = "links" THEN raw.links ELSE <<>>,
      metadata |-> raw.metadata,
      success |-> raw.success ]

\* variant: the result carries the page's links whatever the extract_type
crawl_documentation_links_always(url, extract_type, init_raised, raw) ==
    LET stage == RaisedAt(init_raised, raw) IN
    IF stage = "none"
    THEN Return([SuccessResult(url, extract_type, raw) EXCEPT !.links = raw.links])
    ELSE IF CaughtByExcept(stage, init_raised, raw) THEN Return(FailureResult(url, stage))
    ELSE Raise(stage)

\* variant: the except branch leaves the url out of its result
crawl_documentation_bare_failure(url, extract_type, init_raised, raw) ==
    LET stage == RaisedAt(init_raised, raw) IN
    IF stage = "none" THEN Return(SuccessResult(url, extract_type, raw))
    ELSE IF CaughtByExcept(stage, init_raised, raw)
    THEN Return([error |-> PyStr(stage), success |-> FALSE])
    ELSE Raise(stage)

\* the whole call: what it hands back to its caller, or the exception that
\* leaves it when the except clause does not take it
crawl_documentation(url, extract_type, init_raised, raw) ==
    LET stage == RaisedAt(init_raised, raw) IN
    IF stage = "none" THEN Return(SuccessResult(url, extract_type, raw))
    ELSE IF CaughtByExcept(stage, init_raised, raw) THEN Return(FailureResult(url, stage))
    ELSE Raise(stage)

\* whether the call suspends in arun (it raised before if not)
ReachesArun(init_raised, raw) ==
    init_raised = "none" /\ raw.raises # "config"

---------------------------------------------------------------------------
(* get_knowledge_graph *)

PyInt(n) == [tag |-> "int", val |-> n]

\* str(n) for 0 <= n < 100
IntText(n) ==
    IF n < 10 THEN <<Digits[n + 1]>>
    ELSE <<Digits[(n \div 10) + 1], Digits[(n % 10) + 1]>>

\* json.dumps of a value, as the pieces of text it writes: null, a number,
\* or a list of such values
RECURSIVE JsonValue(_)
RECURSIVE JsonItems(_)
JsonValue(v) ==
    IF v.tag = "None" THEN <<"null">>
    ELSE IF v.tag = "int" THEN IntText(v.val)
    ELSE <<"[">> \o JsonItems(v.items) \o <<"]">>

\* the items of a list, separated by ", "
JsonItems(items) ==
    IF items = <<>> THEN <<>>
    ELSE JsonValue(Head(items))
         \o (IF Len(items) > 1 THEN <<", ">> ELSE <<>>)
         \o JsonItems(Tail(items))

\* json.dumps of a dict given as its (key, value) pairs in insertion order
RECURSIVE JsonMembers(_)
JsonMembers(pairs) ==
    IF pairs = <<>> THEN <<>>
    ELSE <<"\"", pairs[1][1], "\"", ": ">> \o JsonValue(pairs[1][2])
         \o (IF Len(pairs) > 1 THEN <<", ">> ELSE <<>>)
         \o JsonMembers(Tail(pairs))

json_dumps(pairs) == <<"{">> \o JsonMembers(pairs) \o <<"}">>

\* variant: the resource reporting the nodes of the graphs built by the
\* crawls so far
get_knowledge_graph_from_crawls ==
    LET count(i) == IF pc[i] = "idle" THEN 0
                    ELSE Cardinality(DOMAIN local[i].knowledge_graph.nodes)
    IN json_dumps(<< <<"frameworks", PyList(<<>>)>>,
                     <<"total_nodes", PyInt(count(1) + count(2))>>,
                     <<"last_updated", None>> >>)

\* lines 177-181: the placeholder, serialized
get_knowledge_graph ==
    json_dumps(<< <<"frameworks", PyList(<<>>)>>,
                  <<"total_nodes", PyInt(0)>>,
                  <<"last_updated", None>> >>)

\* the resource has not been read yet
NoRead == [read |-> FALSE, text |-> <<>>]

---------------------------------------------------------------------------
(* extend_knowledge_graph: the locals of one invocation *)

Invocations == {1, 2}

IdleLocal ==
    [ framework_name |-> "", base_url |-> <<>>, depth |-> 0, patterns |-> None,
      knowledge_graph |-> None, url_queue |-> <<>>, visited_urls |-> {},
      current_url |-> <<>>, current_depth |-> 0, result |-> None,
      exception |-> "none" ]

\* variant: the queue seeded with a URL of another site
FreshLocal_seeds_other_site(framework_name, base_url, depth, patterns) ==
    [ framework_name |-> framework_name, base_url |-> base_url,
      depth |-> depth, patterns |-> patterns,
      knowledge_graph |-> [ framework |-> framework_name,
                            base_url |-> base_url,
                            nodes |-> EmptyDict,
                            relationships |-> <<>> ],
      url_queue |-> << <<OffSiteURL, 0>> >>,
      visited_urls |-> {},
      current_url |-> <<>>, current_depth |-> 0, result |-> None,
      exception |-> "none" ]

\* lines 109-118: the locals as the call sets them up
FreshLocal(framework_name, base_url, depth, patterns) ==
    [ framework_name |-> framework_name, base_url |-> base_url,
      depth |-> depth, patterns |-> patterns,
      knowledge_graph |-> [ framework |-> framework_name,
                            base_url |-> base_url,
                            nodes |-> EmptyDict,
                            relationships |-> <<>> ],
      url_queue |-> << <<base_url, 0>> >>,
      visited_urls |-> {},
      current_url |-> <<>>, current_depth |-> 0, result |-> None,
      exception |-> "none" ]

At(p, L) == [pc |-> p, local |-> L]

\* an exception leaves extend_knowledge_graph
Propagate(L, what) == At("raised", [L EXCEPT !.exception = what])

\* line 122: the loop condition
LoopCondition(L) ==
    L.url_queue # <<>> /\ Cardinality(L.visited_urls) < MaxVisited

\* variant: `while url_queue:`
LoopConditionNoCap(L) == L.url_queue # <<>>

\* line 123: url_queue.pop(0)
Pop(L) ==
    [L EXCEPT !.current_url = Head(L.url_queue)[1],
              !.current_depth = Head(L.url_queue)[2],
              !.url_queue = Tail(L.url_queue)]

\* lines 122-123: leave the loop and return, or take the front of the queue
LoopTest(L) ==
    IF LoopCondition(L) THEN At("popped", Pop(L)) ELSE At("done", L)

\* variant: the loop test without the page cap
LoopTestNoCap(L) ==
    IF LoopConditionNoCap(L) THEN At("popped", Pop(L)) ELSE At("done", L)

\* variant: entries beyond the depth bound are not skipped
SkipOrMark_no_depth_test(L) ==
    IF L.current_url \in L.visited_urls
    THEN At("loop", L)
    ELSE At("call", [L EXCEPT !.visited_urls = @ \cup {L.current_url}])

\* variant: the URL is not added to visited_urls before the fetch
SkipOrMark_no_mark(L) ==
    IF L.current_url \in L.visited_urls \/ L.current_depth > L.depth
    THEN At("loop", L)
    ELSE At("call", L)

\* lines 125-128: skip the entry, or mark its URL visited and go on to fetch it
SkipOrMark(L) ==
    IF L.current_url \in L.visited_urls \/ L.current_depth > L.depth
    THEN At("loop", L)
    ELSE At("call", [L EXCEPT !.visited_urls = @ \cup {L.current_url}])

\* knowledge_graph["nodes"][url] = node
SetNode(L, url, node) ==
    LET nodes == L.knowledge_graph.nodes IN
    [L EXCEPT !.knowledge_graph.nodes =
        [u \in DOMAIN nodes \cup {url} |-> IF u = url THEN node ELSE nodes[u]]]

\* lines 144-151: the loop over the links of the result; each link that
\* passes the filter is appended to the queue and to the relationships, in
\* the order of the list
ProcessLinks(links, L) ==
    LET Eligible(link) == should_crawl_link(link, L.base_url, L.patterns)
        kept == SelectSeq(links, Eligible)
    IN  [L EXCEPT
            !.url_queue =
                @ \o [k \in 1..Len(kept) |-> <<kept[k], L.current_depth + 1>>],
            !.knowledge_graph.relationships =
                @ \o [k \in 1..Len(kept) |->
                        [from |-> L.current_url, to |-> kept[k],
                         type |-> "references"]]]

\* variant: the node records the depth of the page's links, not the page's
NodeOf_child_depth(L) ==
    LET content == Get(L.result, "content", PyDict(EmptyDict)) IN
    IF content.tag # "dict" THEN None
    ELSE [ title |-> Get(L.result, "title", None),
           concepts |-> Get(content.items, "main_concepts", <<>>),
           apis |-> Get(content.items, "api_methods", <<>>),
           depth |-> L.current_depth + 1 ]

\* lines 135-140: the node, or the AttributeError of .get on a non-dict content
NodeOf(L) ==
    LET content == Get(L.result, "content", PyDict(EmptyDict)) IN
    IF content.tag # "dict" THEN None
    ELSE [ title |-> Get(L.result, "title", None),
           concepts |-> Get(content.items, "main_concepts", <<>>),
           apis |-> Get(content.items, "api_methods", <<>>),
           depth |-> L.current_depth ]

ProcessBody(L, expand) ==
    LET node == NodeOf(L) IN
    IF node = None THEN Propagate(L, "AttributeError")
    ELSE LET L1 == SetNode(L, L.current_url, node) IN
         At("loop", IF expand
                    THEN ProcessLinks(Get(L.result, "links", <<>>), L1)
                    ELSE L1)

\* variant: the test is `"success" in result`
Process_ignores_success(L) ==
    IF "success" \in DOMAIN L.result
    THEN ProcessBody(L, L.current_depth < L.depth)
    ELSE At("loop", L)

\* variant: the test is `current_depth <= depth`
Process_expands_at_max_depth(L) ==
    IF Get(L.result, "success", FALSE)
    THEN ProcessBody(L, L.current_depth <= L.depth)
    ELSE At("loop", L)

\* lines 133-151: what the loop does with the result of the fetch
Process(L) ==
    IF Get(L.result, "success", FALSE)
    THEN ProcessBody(L, L.current_depth < L.depth)
    ELSE At("loop", L)

\* the caller's side of `result = await crawl_documentation(...)`
AfterCrawl(L, outcome) ==
    IF outcome.kind = "raise"
    THEN Propagate(L, "crawl_documentation")
    ELSE At("got", [L EXCEPT !.result = outcome.value])

\* line 131 up to the await of arun inside crawl_documentation
CallCrawl(L, extract_type, w, init_raised) ==
    LET raw == RawPage(w, L.current_url) IN
    IF ReachesArun(init_raised, raw) THEN At("fetch", L)
    ELSE AfterCrawl(L, crawl_documentation(L.current_url, extract_type,
                                           init_raised, raw))

\* line 131 from the return of arun on
ResumeCrawl(L, extract_type, w) ==
    AfterCrawl(L, crawl_documentation(L.current_url, extract_type, "none",
                                      RawPage(w, L.current_url)))

\* variant: the loop fetches with extract_type "links"
ControllerStep_links(p, L, w, init_raised) ==
    CASE p = "loop" -> LoopTest(L)
      [] p = "popped" -> SkipOrMark(L)
      [] p = "call" -> CallCrawl(L, "links", w, init_raised)
      [] p = "fetch" -> ResumeCrawl(L, "links", w)
      [] p = "got" -> Process(L)

\* variant: the loop fetches with extract_type "links" and has no page cap
ControllerStep_links_no_cap(p, L, w, init_raised) ==
    CASE p = "loop" -> LoopTestNoCap(L)
      [] p = "popped" -> SkipOrMark(L)
      [] p = "call" -> CallCrawl(L, "links", w, init_raised)
      [] p = "fetch" -> ResumeCrawl(L, "links", w)
      [] p = "got" -> Process(L)

\* variant: the loop fetches with extract_type "links" and expands pages at
\* the depth bound too
ControllerStep_links_at_max_depth(p, L, w, init_raised) ==
    CASE p = "loop" -> LoopTest(L)
      [] p = "popped" -> SkipOrMark(L)
      [] p = "call" -> CallCrawl(L, "links", w, init_raised)
      [] p = "fetch" -> ResumeCrawl(L, "links", w)
      [] p = "got" -> Process_expands_at_max_depth(L)

\* lines 122-151: one step of the crawl loop from position p
ControllerStep(p, L, w, init_raised) ==
    CASE p = "loop" -> LoopTest(L)
      [] p = "popped" -> SkipOrMark(L)
      [] p = "call" -> CallCrawl(L, "structured", w, init_raised)
      [] p = "fetch" -> ResumeCrawl(L, "structured", w)
      [] p = "got" -> Process(L)

---------------------------------------------------------------------------
(* Inputs *)

BaseURLs == {RootURL, ShortRoot}
Depths == (0 - 1)..MaxDepth
PatternArgs == {None, PyList(<<>>), PyList(<<BlogPattern>>)}
ToolURLs == {RootURL, OffSiteURL}
Solo == {1}

IdleTool ==
    [ pc |-> "idle", url |-> <<>>, extract_type |-> "", config |-> "",
      init_raised |-> "none", outcome |-> None ]

FilterLinks ==
    {RootURL, ShortRoot, Page(1), BlogURL, OffSiteURL, UpperURL, <<>>,
     ApiPath, RootURL \o <<"/", "a", "p", "i">>,
     RootURL \o <<"/", "d", "o", "c", "s", "/">>}
FilterBases == {RootURL, ShortRoot, RootURL \o <<"/">>, <<>>, OffSiteURL}
FilterPatterns ==
    PatternArgs \cup {PyList(<<ApiPath>>), PyList(<<BlogPattern, ApiPath>>),
                      PyList(<< <<>> >>), PyList(<< <<"z">>, <<"o", "/">> >>)}
MaxCalls == 2

\* nothing appended to the queue and nothing popped from it yet
EmptyLog == [enqueued |-> <<>>, dequeued |-> <<>>]

IdleFilter == [link |-> <<>>, base_url |-> <<>>, patterns |-> None, results |-> <<>>]

---------------------------------------------------------------------------
(* The state machine *)

Init ==
    /\ world \in Worlds
    /\ crawler = 0
    /\ created = 0
    /\ running = 0
    /\ pc = [i \in Invocations |-> "idle"]
    /\ local = [i \in Invocations |-> IdleLocal]
    /\ fetched = [i \in Invocations |-> <<>>]
    /\ tool = IdleTool
    /\ filter = IdleFilter
    /\ log = [i \in Invocations |-> EmptyLog]
    /\ resource = NoRead

\* lines 109-120: a call of extend_knowledge_graph, up to the loop
ExtendCall(i) ==
    /\ running = 0
    /\ pc[i] \in {"idle", "done", "raised"}
    /\ \E base_url \in BaseURLs, depth \in Depths, patterns \in PatternArgs,
          ctor \in CtorOutcomes :
        LET r == init_crawler(crawler, created, ctor) IN
        /\ crawler' = r.crawler
        /\ created' = r.created
        /\ local' = [local EXCEPT ![i] =
              IF r.raised # "none"
              THEN [FreshLocal("fw", base_url, depth, patterns)
                        EXCEPT !.exception = "init_crawler"]
              ELSE FreshLocal("fw", base_url, depth, patterns)]
        /\ pc' = [pc EXCEPT ![i] = IF r.raised # "none" THEN "raised" ELSE "loop"]
        /\ running' = IF r.raised # "none" THEN 0 ELSE i
    /\ fetched' = [fetched EXCEPT ![i] = <<>>]
    /\ log' = [log EXCEPT ![i] =
          [enqueued |-> local'[i].url_queue, dequeued |-> <<>>]]
    /\ UNCHANGED <<world, tool, filter, resource>>

\* the log after a step from locals L to locals M: a step pops the front of
\* the queue (line 123) or appends entries at its back (line 146)
Logged(lg, L, M) ==
    IF Len(M.url_queue) < Len(L.url_queue)
    THEN [lg EXCEPT !.dequeued = Append(@, <<M.current_url, M.current_depth>>)]
    ELSE [lg EXCEPT !.enqueued =
            @ \o SubSeq(M.url_queue, Len(L.url_queue) + 1, Len(M.url_queue))]

\* variant: the visited set kept in one place for all invocations, as a
\* module-level set would be
Advance_shared_visited(i, p, init_raised) ==
    LET shared == [local[i] EXCEPT !.visited_urls =
                      UNION {local[j].visited_urls : j \in Invocations}]
        nxt == ControllerStep(p, shared, world, init_raised)
    IN
    /\ pc[i] = p
    /\ pc' = [pc EXCEPT ![i] = nxt.pc]
    /\ local' = [local EXCEPT ![i] = nxt.local]
    /\ running' = IF nxt.pc \in {"fetch", "done", "raised"} THEN 0 ELSE i
    /\ log' = [log EXCEPT ![i] = Logged(log[i], local[i], nxt.local)]

\* invocation i takes the step of the loop that starts at position p
Advance(i, p, init_raised) ==
    LET nxt == ControllerStep(p, local[i], world, init_raised) IN
    /\ pc[i] = p
    /\ pc' = [pc EXCEPT ![i] = nxt.pc]
    /\ local' = [local EXCEPT ![i] = nxt.local]
    /\ running' = IF nxt.pc \in {"fetch", "done", "raised"} THEN 0 ELSE i
    /\ log' = [log EXCEPT ![i] = Logged(log[i], local[i], nxt.local)]

\* lines 122-123, and line 153 when the loop ends
LoopStep(i) ==
    /\ running = i
    /\ Advance(i, "loop", "none")
    /\ UNCHANGED <<world, crawler, created, fetched, tool, filter, resource>>

\* lines 125-128
MarkStep(i) ==
    /\ running = i
    /\ Advance(i, "popped", "none")
    /\ UNCHANGED <<world, crawler, created, fetched, tool, filter, resource>>

\* line 131 with lines 43-71: crawl_documentation up to its await of arun
CallStep(i) ==
    /\ running = i
    /\ \E ctor \in CtorOutcomes :
        LET r == init_crawler(crawler, created, ctor) IN
        /\ crawler' = r.crawler
        /\ created' = r.created
        /\ Advance(i, "call", r.raised)
    /\ fetched' = [fetched EXCEPT ![i] = Append(@, local[i].current_url)]
    /\ UNCHANGED <<world, tool, filter, resource>>

\* lines 71-88 and 131: arun is over, crawl_documentation returns
ResumeStep(i) ==
    /\ running = 0
    /\ Advance(i, "fetch", "none")
    /\ UNCHANGED <<world, crawler, created, fetched, tool, filter, resource>>

\* lines 133-151
ProcessStep(i) ==
    /\ running = i
    /\ Advance(i, "got", "none")
    /\ UNCHANGED <<world, crawler, created, fetched, tool, filter, resource>>

\* lines 43-71: the crawl_documentation tool is called on its own
ToolCall ==
    /\ running = 0
    /\ tool.pc # "fetch"
    /\ \E url \in ToolURLs, extract_type \in ExtractTypes, ctor \in CtorOutcomes :
        LET r == init_crawler(crawler, created, ctor)
            raw == RawPage(world, url)
            call == [ pc |-> "fetch", url |-> url, extract_type |-> extract_type,
                      config |-> extraction_config(extract_type),
                      init_raised |-> r.raised, outcome |-> None ]
        IN
        /\ crawler' = r.crawler
        /\ created' = r.created
        /\ tool' = IF ReachesArun(r.raised, raw) THEN call
                   ELSE [call EXCEPT
                           !.pc = "over",
                           !.outcome = crawl_documentation(url, extract_type,
                                                           r.raised, raw)]
    /\ UNCHANGED <<world, running, pc, local, fetched, filter, log, resource>>

\* lines 71-88: arun is over, the tool call returns
ToolResume ==
    /\ running = 0
    /\ tool.pc = "fetch"
    /\ tool' = [tool EXCEPT
                  !.pc = "over",
                  !.outcome = crawl_documentation(tool.url, tool.extract_type,
                                  "none", RawPage(world, tool.url))]
    /\ UNCHANGED <<world, crawler, created, running, pc, local, fetched, filter,
                   log, resource>>

\* lines 167-181: the knowledge_graph resource is read
GetKnowledgeGraph ==
    /\ running = 0
    /\ resource' = [read |-> TRUE, text |-> get_knowledge_graph]
    /\ UNCHANGED <<world, crawler, created, running, pc, local, fetched, tool,
                   filter, log>>

NextExtend ==
    \E i \in Solo :
        \/ ExtendCall(i)
        \/ LoopStep(i)
        \/ MarkStep(i)
        \/ CallStep(i)
        \/ ResumeStep(i)
        \/ ProcessStep(i)

NextTool == ToolCall \/ ToolResume

Next == NextExtend \/ NextTool \/ GetKnowledgeGraph

Spec == Init /\ [][Next]_vars

\* the crawl loop alone
SpecExtend == Init /\ [][NextExtend]_vars

\* the crawl_documentation tool alone
SpecTool == Init /\ [][NextTool]_vars

\* the web as four sites: every page fetched, the root page reported
\* unsuccessful, the root page without extracted content, and the extraction
\* strategy failing to build
NarrowWorlds ==
    { w \in Worlds :
        /\ w.root \in {"ok", "unsuccessful", "content_none", "raise_config"}
        /\ w.rest = "ok"
        /\ w.topo = "web" }

InitNarrow ==
    /\ world \in NarrowWorlds
    /\ crawler = 0
    /\ created = 0
    /\ running = 0
    /\ pc = [i \in Invocations |-> "idle"]
    /\ local = [i \in Invocations |-> IdleLocal]
    /\ fetched = [i \in Invocations |-> <<>>]
    /\ tool = IdleTool
    /\ filter = IdleFilter
    /\ log = [i \in Invocations |-> EmptyLog]
    /\ resource = NoRead

\* the whole server: one crawl at a time, tool calls and resource reads
\* between its steps
SpecServer == InitNarrow /\ [][Next]_vars

\* two invocations of extend_knowledge_graph on the one event loop: a
\* coroutine runs until it awaits arun, then any suspended one may resume
NextConcurrent ==
    \E i \in Invocations :
        \/ ExtendCall(i)
        \/ LoopStep(i)
        \/ MarkStep(i)
        \/ CallStep(i)
        \/ ResumeStep(i)
        \/ ProcessStep(i)

SpecConcurrent == InitNarrow /\ [][NextConcurrent]_vars

\* the crawl loop alone, with the event loop running a coroutine that can
\* run and every awaited fetch returning
SpecExtendFair ==
    /\ Init
    /\ [][NextExtend]_vars
    /\ \A i \in Solo :
          /\ WF_vars(LoopStep(i))
          /\ WF_vars(MarkStep(i))
          /\ WF_vars(CallStep(i))
          /\ WF_vars(ResumeStep(i))
          /\ WF_vars(ProcessStep(i))

---------------------------------------------------------------------------
(* should_crawl_link on its own *)

InitFilter ==
    /\ world = [root |-> "ok", rest |-> "ok", topo |-> "none"]
    /\ crawler = 0
    /\ created = 0
    /\ running = 0
    /\ pc = [i \in Invocations |-> "idle"]
    /\ local = [i \in Invocations |-> IdleLocal]
    /\ fetched = [i \in Invocations |-> <<>>]
    /\ tool = IdleTool
    /\ \E link \in FilterLinks, base_url \in FilterBases,
          patterns \in FilterPatterns :
        filter = [ link |-> link, base_url |-> base_url,
                   patterns |-> patterns, results |-> <<>> ]
    /\ log = [i \in Invocations |-> EmptyLog]
    /\ resource = NoRead

\* lines 155-165: one call with the arguments at hand
FilterCall ==
    /\ Len(filter.results) < MaxCalls
    /\ filter' = [filter EXCEPT !.results =
          Append(@, should_crawl_link(filter.link, filter.base_url,
                                      filter.patterns))]
    /\ UNCHANGED <<world, crawler, created, running, pc, local, fetched, tool,
                   log, resource>>

SpecFilter == InitFilter /\ [][FilterCall]_vars

---------------------------------------------------------------------------
(* Properties of the crawl loop *)

Started(i) == pc[i] # "idle"
Graph(i) == local[i].knowledge_graph
Nodes(i) == Graph(i).nodes
Edges(i) == Graph(i).relationships

\* what the page at url gives the crawl loop
FetchOf(url) == crawl_documentation(url, "structured", "none", RawPage(world, url)).value

\* the links of the page at url that pass the Link Filter of invocation i
EligibleLinks(i, url) ==
    { k \in 1..Len(LinksOf(world, url)) :
        should_crawl_link(LinksOf(world, url)[k], local[i].base_url,
                          local[i].patterns) }

\* C1: in every reachable state of an invocation, and so at termination, the
\* visited set holds at most 50 URLs, whatever links the pages carry and
\* whether fetches succeed or fail.
C1_VisitedAtMostCap ==
    \A i \in Invocations : Cardinality(local[i].visited_urls) <= MaxVisited

\* an invocation has returned after fetching a page that carries more
\* eligible links than the cap
C1_Witness ==
    /\ pc[1] = "done"
    /\ local[1].depth >= 1
    /\ local[1].base_url \in DOMAIN Nodes(1)
    /\ Cardinality(EligibleLinks(1, local[1].base_url)) > MaxVisited
    /\ local[1].visited_urls = {local[1].base_url}

\* C2: no URL is handed to the fetch twice within one invocation; a URL is in
\* the visited set before its fetch starts and stays there.
C2_FetchedAtMostOnce ==
    \A i \in Invocations :
        /\ \A j, k \in 1..Len(fetched[i]) :
              fetched[i][j] = fetched[i][k] => j = k
        /\ pc[i] \in {"call", "fetch", "got"} =>
              local[i].current_url \in local[i].visited_urls
        /\ \A j \in 1..Len(fetched[i]) : fetched[i][j] \in local[i].visited_urls

\* the fetch of a URL is in flight and the URL is already marked visited
C2_Witness ==
    /\ pc[1] = "fetch"
    /\ fetched[1] = <<local[1].base_url>>
    /\ local[1].base_url \in local[1].visited_urls

\* C3: with depth = D every node of the graph has a recorded depth in 0..D,
\* in every state and in the returned graph; with D < 0 there is no node.
C3_NodeDepthWithinBound ==
    \A i \in Invocations :
        Started(i) =>
            \A u \in DOMAIN Nodes(i) :
                /\ Nodes(i)[u].depth >= 0
                /\ Nodes(i)[u].depth <= local[i].depth

\* a returned graph holds a node, at the depth bound
C3_Witness ==
    /\ pc[1] = "done"
    /\ \E u \in DOMAIN Nodes(1) : Nodes(1)[u].depth = local[1].depth

\* C4 as claimed: a crawl with depth >= 1 whose base page was fetched and
\* carries an eligible link returns a graph with at least one edge, one per
\* eligible link of the base page.
C4_EligibleLinksBecomeEdges ==
    \A i \in Invocations :
        ( /\ pc[i] = "done"
          /\ local[i].depth >= 1
          /\ local[i].base_url \in DOMAIN Nodes(i)
          /\ EligibleLinks(i, local[i].base_url) # {} )
        => Len(Edges(i)) >= 1

\* C5 as claimed: no outcome of a page makes the invocation fail: once the
\* loop is entered no exception leaves the invocation (the only one that can
\* is the failure to create the crawler at line 120, before any page), and
\* what it returns is a graph with framework, base_url, nodes and
\* relationships.
C5_NoPageFailsTheCall ==
    \A i \in Invocations :
        /\ pc[i] = "raised" => local[i].exception = "init_crawler"
        /\ pc[i] = "done" =>
              DOMAIN Graph(i) =
                  {"framework", "base_url", "nodes", "relationships"}

\* C9: a failed fetch adds no node and no edge and enqueues nothing, its URL
\* stays visited, and the loop goes on; when the fetch of the base URL is the
\* failed one, the returned graph has no node and no edge.
C9_FailedFetchAddsNothing ==
    /\ [][ \A i \in Invocations :
             (pc[i] = "got" /\ ~Get(local[i].result, "success", FALSE)
                /\ pc'[i] # "got")
             => /\ pc'[i] = "loop"
                /\ local'[i].knowledge_graph = local[i].knowledge_graph
                /\ local'[i].url_queue = local[i].url_queue
                /\ local'[i].visited_urls = local[i].visited_urls
                /\ local[i].current_url \in local[i].visited_urls ]_vars
    /\ [](\A i \in Invocations :
            (pc[i] = "done" /\ fetched[i] # <<>>
                /\ ~FetchOf(local[i].base_url).success)
            => /\ DOMAIN Nodes(i) = {}
               /\ Edges(i) = <<>>
               /\ fetched[i] = <<local[i].base_url>>)

\* the fetch of the base URL failed and the invocation returned
C9_Witness ==
    /\ pc[1] = "done"
    /\ fetched[1] = <<local[1].base_url>>
    /\ ~Get(local[1].result, "success", FALSE)
    /\ local[1].base_url \in local[1].visited_urls
    /\ DOMAIN Nodes(1) = {}

\* C10: a page processed at the depth bound appends no edge and enqueues
\* nothing, whatever links it has; a crawl with depth = 0 returns at most the
\* node of the base URL, only if its fetch succeeded, and no edge.
C10_NoExpansionAtMaxDepth ==
    /\ [][ \A i \in Invocations :
             (pc[i] = "got" /\ local[i].current_depth = local[i].depth
                /\ pc'[i] # "got")
             => /\ Edges(i)' = Edges(i)
                /\ local'[i].url_queue = local[i].url_queue ]_vars
    /\ [](\A i \in Invocations :
            (Started(i) /\ local[i].depth = 0)
            => /\ DOMAIN Nodes(i) \subseteq {local[i].base_url}
               /\ (DOMAIN Nodes(i) # {} => FetchOf(local[i].base_url).success)
               /\ Edges(i) = <<>>)

\* a crawl with depth = 0 returned the node of a base page that has eligible
\* links
C10_Witness ==
    /\ pc[1] = "done"
    /\ local[1].depth = 0
    /\ DOMAIN Nodes(1) = {local[1].base_url}
    /\ EligibleLinks(1, local[1].base_url) # {}
    /\ Edges(1) = <<>>

---------------------------------------------------------------------------
(* Properties of crawl_documentation *)

ToolOver == tool.pc = "over"
ToolStage == RaisedAt(tool.init_raised, RawPage(world, tool.url))

\* C6 as claimed: a call of crawl_documentation always ends by returning;
\* when a statement of its body raised (creating the crawler, building the
\* configuration, arun, or assembling the result), it returns a result with
\* success = false and an error message.
C6_NeverPropagates ==
    ToolOver =>
        /\ tool.outcome.kind = "return"
        /\ ToolStage # "none" =>
              /\ tool.outcome.value.success = FALSE
              /\ "error" \in DOMAIN tool.outcome.value

\* C7 as claimed: every result, of the success path and of the failure path
\* alike, has the fields url, title, metadata and success.
C7_EveryResultHasTitleAndMetadata ==
    (ToolOver /\ tool.outcome.kind = "return") =>
        {"url", "title", "metadata", "success"} \subseteq DOMAIN tool.outcome.value

\* C7 as amended: every result has url and success; a result of the success
\* path has title, content, links and metadata as well; a result of the
\* failure path has error instead, and neither title nor metadata.
C7_ResultFieldsByPath ==
    (ToolOver /\ tool.outcome.kind = "return") =>
        /\ {"url", "success"} \subseteq DOMAIN tool.outcome.value
        /\ tool.outcome.value.url = tool.url
        /\ ToolStage = "none" =>
              DOMAIN tool.outcome.value =
                  {"url", "title", "content", "links", "metadata", "success"}
        /\ ToolStage # "none" =>
              DOMAIN tool.outcome.value = {"url", "error", "success"}

\* a call that raised inside returned a result without title and metadata
C7_Witness ==
    /\ ToolOver
    /\ ToolStage = "arun"
    /\ tool.outcome.kind = "return"
    /\ "title" \notin DOMAIN tool.outcome.value
    /\ "url" \in DOMAIN tool.outcome.value

---------------------------------------------------------------------------
(* Properties of should_crawl_link *)

IsPrefix(p, s) ==
    /\ Len(p) <= Len(s)
    /\ \A j \in 1..Len(p) : s[j] = p[j]

IsSubstring(sub, s) ==
    \E off \in 0..(Len(s) - Len(sub)) :
        \A j \in 1..Len(sub) : s[off + j] = sub[j]

EffectivePatterns(patterns) ==
    IF patterns.tag = "list" /\ Len(patterns.items) > 0
    THEN {patterns.items[k] : k \in 1..Len(patterns.items)}
    ELSE {default_patterns[k] : k \in 1..Len(default_patterns)}

\* C8: every call returns true exactly when the link has base_url as a prefix
\* and contains an element of the effective pattern list (the patterns given
\* when there are any, else the five defaults); so two calls with the same
\* arguments return the same.
C8_FilterContract ==
    \A k \in 1..Len(filter.results) :
        filter.results[k] =
            ( /\ IsPrefix(filter.base_url, filter.link)
              /\ \E p \in EffectivePatterns(filter.patterns) :
                    IsSubstring(p, filter.link) )

\* called twice with an empty pattern list, the filter accepted the link
\* both times on the defaults
C8_Witness ==
    /\ Len(filter.results) >= 2
    /\ filter.patterns = PyList(<<>>)
    /\ filter.results[1]
    /\ filter.results[2]

\* C11: every invocation that entered its crawl loop eventually completes
\* and returns its graph, given that every fetch returns.
C11_EventuallyCompleted ==
    \A i \in Solo : (pc[i] = "loop") ~> (pc[i] = "done")

---------------------------------------------------------------------------
(* the shared crawler *)

\* invocation i is between its call and its return
InFlight(i) == pc[i] \in {"loop", "popped", "call", "fetch", "got"}

\* C12 as stated: two invocations in flight at once, the first ones of the
\* process, have created two crawler instances between them.
C12_ConcurrentFirstCallsCreateTwo ==
    (\A i \in Invocations : InFlight(i)) => created >= 2

\* C12: however the invocations interleave, at most one crawler instance is
\* ever constructed: init_crawler tests and assigns the global without
\* awaiting in between, so no other coroutine runs between the two.
C12_AtMostOneCrawler == created <= 1

\* both invocations are suspended in their first fetch, having called
\* init_crawler one after the other before any fetch returned
C12_Witness ==
    /\ \A i \in Invocations :
          /\ pc[i] = "fetch"
          /\ Len(fetched[i]) = 1
    /\ created = 1

\* C13: a crawler is constructed only by a call that finds the global unset,
\* and that call sets the global to the new instance; once the global is set
\* no call constructs another crawler and none replaces or resets the global.
C13_CreatedOnceNeverReplaced ==
    [][ /\ (crawler # 0 => crawler' = crawler /\ created' = created)
        /\ (created' # created =>
              crawler = 0 /\ created' = created + 1 /\ crawler' = created') ]_vars

\* a crawl and a tool call are both suspended in arun: three calls of
\* init_crawler so far (lines 120, 44 from the crawl, 44 from the tool) and
\* one instance, which the global still holds
C13_Witness ==
    /\ pc[1] = "fetch"
    /\ tool.pc = "fetch"
    /\ crawler = 1
    /\ created = 1

---------------------------------------------------------------------------
(* isolation of invocations *)

\* the positions and locals an invocation passes through when it runs with
\* no other invocation on the event loop, from position p with locals L
RECURSIVE RunAlone(_, _, _)
RunAlone(p, L, w) ==
    IF p \in {"done", "raised"}
    THEN {[pc |-> p, local |-> L]}
    ELSE LET nxt == ControllerStep(p, L, w, "none") IN
         {[pc |-> p, local |-> L]} \cup RunAlone(nxt.pc, nxt.local, w)

\* the run alone of the call that invocation i is executing
AloneRunOf(i) ==
    RunAlone("loop",
             FreshLocal(local[i].framework_name, local[i].base_url,
                        local[i].depth, local[i].patterns),
             world)

\* C14: with two invocations interleaved at their fetches, each invocation is
\* at every moment where it would be running alone on the same web: its
\* graph, queue and visited set are those of the run alone, and so is the
\* graph it returns.
C14_SameAsRunningAlone ==
    \A i \in Invocations :
        (Started(i) /\ local[i].exception # "init_crawler") =>
            [pc |-> pc[i], local |-> local[i]] \in AloneRunOf(i)

\* invocation 1 has inserted its node while invocation 2, crawling the same
\* site, is suspended in the fetch of the same page
C14_Witness ==
    /\ pc[1] = "loop"
    /\ pc[2] = "fetch"
    /\ local[2].base_url = local[1].base_url
    /\ local[2].current_url = RootURL
    /\ RootURL \in DOMAIN local[1].knowledge_graph.nodes

---------------------------------------------------------------------------
(* the knowledge_graph resource *)

\* {"frameworks": [], "total_nodes": 0, "last_updated": null}
PlaceholderText ==
    << "{", "\"", "frameworks", "\"", ": ", "[", "]", ", ",
       "\"", "total_nodes", "\"", ": ", "0", ", ",
       "\"", "last_updated", "\"", ": ", "null", "}" >>

\* C15: whatever crawls and tool calls have run or are running, a read of
\* the knowledge_graph resource returns the JSON text of the placeholder
\* with no framework, zero nodes and a null date.
C15_AlwaysThePlaceholder ==
    resource.read => resource.text = PlaceholderText

\* the resource has been read, a crawl has returned a graph with a node and
\* a tool call has returned a successful result
C15_Witness ==
    /\ resource.read
    /\ pc[1] = "done"
    /\ RootURL \in DOMAIN local[1].knowledge_graph.nodes
    /\ tool.pc = "over"
    /\ tool.outcome.kind = "return"
    /\ tool.outcome.value.success

---------------------------------------------------------------------------
(* the queue *)

EntriesFor(entries, url) ==
    LET IsFor(e) == e[1] = url IN SelectSeq(entries, IsFor)

\* C17: while an invocation runs, a node once in its graph stays there
\* unchanged, and every node's depth is the depth of the first entry
\* enqueued for its URL.
C17_NodeSetOnceAtFirstDepth ==
    [][ \A i \in Solo : InFlight(i) =>
          /\ \A u \in DOMAIN Nodes(i) :
                /\ u \in DOMAIN local'[i].knowledge_graph.nodes
                /\ local'[i].knowledge_graph.nodes[u] = Nodes(i)[u]
          /\ \A u \in DOMAIN local'[i].knowledge_graph.nodes :
                /\ EntriesFor(log'[i].enqueued, u) # <<>>
                /\ local'[i].knowledge_graph.nodes[u].depth =
                      EntriesFor(log'[i].enqueued, u)[1][2] ]_vars

\* the node of the base page, recorded at depth 0 from a page that has
\* links, is in the graph the invocation returned
C17_Witness ==
    /\ pc[1] = "done"
    /\ RootURL \in DOMAIN local[1].knowledge_graph.nodes
    /\ local[1].knowledge_graph.nodes[RootURL].depth = 0
    /\ log[1].enqueued = << <<RootURL, 0>> >>
    /\ LinksOf(world, RootURL) # <<>>
    /\ local[1].depth >= 1

\* C18: the entries enqueued so far are the entries dequeued so far, each
\* once and in order, followed by those still in the queue; and when the
\* invocation returns no entry is left in the queue.
C18_EveryEntryConsumedOnce ==
    \A i \in Solo :
        (Started(i) /\ local[i].exception # "init_crawler") =>
            /\ log[i].enqueued = log[i].dequeued \o local[i].url_queue
            /\ pc[i] = "done" =>
                  /\ local[i].url_queue = <<>>
                  /\ log[i].dequeued = log[i].enqueued

\* the invocation returned after fetching a base page that has links, with
\* room left under the depth bound: its one entry was dequeued and the queue
\* is empty
C18_Witness ==
    /\ pc[1] = "done"
    /\ local[1].url_queue = <<>>
    /\ Len(log[1].dequeued) = 1
    /\ RootURL \in DOMAIN local[1].knowledge_graph.nodes
    /\ LinksOf(world, RootURL) # <<>>
    /\ local[1].depth >= 1

---------------------------------------------------------------------------
(* the links of a result *)

\* the results in hand: the one the tool call returned for an extract_type
\* other than "links", and the one the crawl loop got from its fetch
ResultsNotForLinks ==
    (IF ToolOver /\ tool.outcome.kind = "return" /\ tool.extract_type # "links"
     THEN {tool.outcome.value} ELSE {})
    \cup {local[i].result : i \in {j \in Solo : pc[j] = "got"}}

\* the crawl loop's result is the one of a fetch with extract_type "structured"
LoopFetchesStructured ==
    \A i \in Solo : pc[i] = "got" =>
        local[i].result = FetchOf(local[i].current_url)

\* C19 as stated, success and failure read off the success flag: such a
\* result has links = [] when success is true and no links field when
\* success is false; and the loop's result is one of these.
C19_LinksBySuccessFlag ==
    /\ LoopFetchesStructured
    /\ \A r \in ResultsNotForLinks :
          IF r.success
          THEN "links" \in DOMAIN r /\ r.links = <<>>
          ELSE "links" \notin DOMAIN r

\* C19: such a result has no links field when it comes from the except
\* branch (it carries error), and links = [] when it was assembled in the try
\* block, whatever its success flag; and the loop's result is one of these.
C19_LinksByPath ==
    /\ LoopFetchesStructured
    /\ \A r \in ResultsNotForLinks :
          IF "error" \in DOMAIN r
          THEN "links" \notin DOMAIN r /\ ~r.success
          ELSE "links" \in DOMAIN r /\ r.links = <<>>

\* the loop holds a successful result with no links for a page that has
\* links, and a tool call for markdown has returned a failure result
C19_Witness ==
    /\ pc[1] = "got"
    /\ local[1].result.success
    /\ local[1].result.links = <<>>
    /\ LinksOf(world, local[1].current_url) # <<>>
    /\ ToolOver
    /\ tool.outcome.kind = "return"
    /\ tool.extract_type = "markdown"
    /\ "error" \in DOMAIN tool.outcome.value

---------------------------------------------------------------------------
(* scope and consistency of the graph *)

\* C20: in every state of an invocation every visited URL starts with
\* base_url, every node is keyed by a visited URL, and every edge leaves a
\* URL that has a node.
C20_InScopeAndConsistent ==
    \A i \in Solo :
        Started(i) =>
            /\ \A u \in local[i].visited_urls : IsPrefix(local[i].base_url, u)
            /\ DOMAIN Nodes(i) \subseteq local[i].visited_urls
            /\ \A k \in 1..Len(Edges(i)) : Edges(i)[k].from \in DOMAIN Nodes(i)

\* the base page of a site with links has been visited and has its node,
\* and the loop is about to test its condition again
C20_Witness ==
    /\ pc[1] = "loop"
    /\ local[1].base_url = RootURL
    /\ local[1].visited_urls = {RootURL}
    /\ DOMAIN Nodes(1) = {RootURL}
    /\ LinksOf(world, RootURL) # <<>>

=============================================================================
